---- MODULE Spec2Model ----
(***************************************************************************)
(* A model of the log-density evaluators binomial_log and wishart_log and  *)
(* of the special functions they rest on (stan::maths / stan::prob).       *)
(*                                                                         *)
(* Real numbers are modelled exactly.  A finite number is                  *)
(*     q + (1/den) * ( SUM_p l[p]*ln(p)  +  c*ln(pi) )                     *)
(* with q a rational <<numerator, denominator>>, l a map from primes to    *)
(* non-zero integers, and den, c integers, kept in lowest terms so that    *)
(* two numbers are equal iff their records are equal.  The non-finite      *)
(* IEEE values (NaN, +infinity, -infinity) are kinds of their own, and an   *)
(* accumulator that was declared but never written is "uninit".            *)
(* Rounding is not modelled: "exactly" below means exact real arithmetic.  *)
(***************************************************************************)
EXTENDS Integers, Sequences, FiniteSets, TLC

(* ------------------------------ bounds -------------------------------- *)
\* largest population size / success count drawn for binomial_log
MaxN == 3
\* probabilities theta are drawn from the grid of multiples of 1/ThetaDen
ThetaDen == 4
\* largest row or column count of a matrix drawn for wishart_log
MaxDim == 2
\* longest vector drawn for softmax / inverse_softmax
MaxLen == 3
\* vector entries are drawn from 0..MaxX
MaxX == 2

(* ------------------------- exact rationals ---------------------------- *)
Abs(a) == IF a < 0 THEN -a ELSE a

RECURSIVE Gcd(_, _)
Gcd(a, b) == IF b = 0 THEN a ELSE Gcd(b, a % b)

\* the rational a/b (b /= 0) in lowest terms with a positive denominator
Rat(a, b) ==
  LET s == IF b < 0 THEN -1 ELSE 1
      g == Gcd(Abs(a), Abs(b))
  IN  <<(s * a) \div g, (s * b) \div g>>

RInt(a) == <<a, 1>>
RAdd(p, r) == Rat(p[1] * r[2] + r[1] * p[2], p[2] * r[2])
RMul(p, r) == Rat(p[1] * r[1], p[2] * r[2])
RNeg(p) == <<-p[1], p[2]>>
RLt(p, r) == p[1] * r[2] < r[1] * p[2]
RLe(p, r) == p[1] * r[2] <= r[1] * p[2]
RAbs(p) == <<Abs(p[1]), p[2]>>

(* --------------------- the logarithmic part --------------------------- *)
IsPrime(p) == p > 1 /\ \A d \in 2..(p - 1) : p % d /= 0

RECURSIVE Mult(_, _)
\* the multiplicity of the prime p in m >= 1
Mult(p, m) == IF m % p = 0 THEN 1 + Mult(p, m \div p) ELSE 0

EmptyL == [p \in {} |-> 0]

\* ln(m) for an integer m >= 1 as a map prime |-> exponent
LnInt(m) == [p \in {r \in 2..m : m % r = 0 /\ IsPrime(r)} |-> Mult(p, m)]

LGet(l, p) == IF p \in DOMAIN l THEN l[p] ELSE 0

\* a*l1 + b*l2, zero coefficients dropped
LComb(a, l1, b, l2) ==
  LET v(p) == a * LGet(l1, p) + b * LGet(l2, p)
  IN  [p \in {r \in DOMAIN l1 \cup DOMAIN l2 : v(r) /= 0} |-> v(p)]

RECURSIVE GcdOver(_, _, _)
GcdOver(l, D, g) ==
  IF D = {} \/ g = 1 THEN g
  ELSE LET p == CHOOSE r \in D : TRUE
       IN  GcdOver(l, D \ {p}, Gcd(Abs(l[p]), g))

(* --------------------------- numbers ---------------------------------- *)
Special(kind) == [k |-> kind, q |-> <<0, 1>>, den |-> 1, l |-> EmptyL, c |-> 0]
NaN == Special("nan")
PosInf == Special("pinf")
NegInf == Special("ninf")
Uninit == Special("uninit")

\* the finite number q + (1/den)*(l + c*ln(pi)), den >= 1, in lowest terms
Fin(q, den, l, c) ==
  LET g == GcdOver(l, DOMAIN l, Gcd(Abs(c), den))
  IN  [k |-> "fin", q |-> q, den |-> den \div g,
       l |-> [p \in DOMAIN l |-> l[p] \div g], c |-> c \div g]

NumRat(q) == Fin(q, 1, EmptyL, 0)
NumInt(a) == NumRat(RInt(a))
Zero == NumInt(0)
LnPi == Fin(<<0, 1>>, 1, EmptyL, 1)

IsFinite(a) == a.k = "fin"
IsRational(a) == a.k = "fin" /\ a.l = EmptyL /\ a.c = 0

\* IEEE addition
Add(a, b) ==
  IF a.k = "nan" \/ b.k = "nan" THEN NaN
  ELSE IF a.k = "fin" /\ b.k = "fin"
    THEN Fin(RAdd(a.q, b.q), a.den * b.den,
             LComb(b.den, a.l, a.den, b.l), b.den * a.c + a.den * b.c)
  ELSE IF a.k = "fin" THEN b
  ELSE IF b.k = "fin" THEN a
  ELSE IF a.k = b.k THEN a
  ELSE NaN

\* IEEE product of the finite rational r with the number a
Scale(r, a) ==
  IF a.k = "nan" THEN NaN
  ELSE IF a.k = "fin"
    THEN IF r[1] = 0 THEN Zero
         ELSE Fin(RMul(r, a.q), a.den * r[2],
                  LComb(r[1], a.l, 0, EmptyL), r[1] * a.c)
  ELSE IF r[1] = 0 THEN NaN
  ELSE IF r[1] > 0 THEN a
  ELSE IF a.k = "pinf" THEN NegInf ELSE PosInf

(* A double too close to 0 for a quotient of two 32-bit integers is kept
   as [k |-> "tiny", m |-> m, e |-> e], the number m * 10^-e, m /= 0. *)
Tiny(m, e) == [k |-> "tiny", m |-> m, e |-> e]

Neg(a) == IF a.k = "tiny" THEN Tiny(0 - a.m, a.e) ELSE Scale(RInt(-1), a)
Sub(a, b) == Add(a, Neg(b))

(* Comparisons of a rational or non-finite number; every comparison with NaN
   is false, as in IEEE arithmetic. *)
Lt(a, b) ==
  /\ a.k /= "nan" /\ b.k /= "nan"
  /\ \/ a.k = "ninf" /\ b.k /= "ninf"
     \/ b.k = "pinf" /\ a.k /= "pinf"
     \/ a.k = "fin" /\ b.k = "fin" /\ RLt(a.q, b.q)

Le(a, b) ==
  /\ a.k /= "nan" /\ b.k /= "nan"
  /\ \/ a.k = "ninf"
     \/ b.k = "pinf"
     \/ a.k = "fin" /\ b.k = "fin" /\ RLe(a.q, b.q)

\* the exponent of a power of ten among log1p's thresholds
Digits(P) == IF P = 10^9 THEN 9 ELSE IF P = 10^8 THEN 8 ELSE 0

\* a > 1/(P1*P2) for a rational or non-finite a, without forming n*P1*P2
GtRecip(a, P1, P2) ==
  \/ a.k = "pinf"
  \/ a.k = "fin" /\ a.q[1] > 0 /\ ((a.q[2] \div P2) \div a.q[1]) < P1
  \/ /\ a.k = "tiny" /\ a.m > 0
     /\ a.e >= Digits(P1) + Digits(P2) =>
          a.m > 10^(a.e - Digits(P1) - Digits(P2))

\* product of two rationals
RatMul(a, b) == NumRat(RMul(a.q, b.q))

\* std::fabs
fabs(a) ==
  IF a.k = "fin" THEN NumRat(RAbs(a.q))
  ELSE IF a.k = "nan" THEN NaN ELSE PosInf

(* ----------------------- special functions ---------------------------- *)
\* std::log of a rational or non-finite number
log(a) ==
  IF a.k = "nan" \/ a.k = "ninf" THEN NaN
  ELSE IF a.k = "pinf" THEN PosInf
  ELSE IF a.q[1] < 0 THEN NaN
  ELSE IF a.q[1] = 0 THEN NegInf
  ELSE Fin(<<0, 1>>, 1, LComb(1, LnInt(a.q[1]), -1, LnInt(a.q[2])), 0)

RECURSIVE Legendre(_, _)
\* the multiplicity of the prime p in a!
Legendre(a, p) == IF a < p THEN 0 ELSE (a \div p) + Legendre(a \div p, p)

\* ln(a!) as a map prime |-> exponent
LnFact(a) == [p \in {r \in 2..a : IsPrime(r)} |-> Legendre(a, p)]

(* lgamma at an integer or half-integer x (every argument the evaluators
   form from integer-valued inputs is one): ln|Gamma(x)|, and +infinity at
   the poles 0, -1, -2, ... *)
lgamma(x) ==
  LET m == x.q[1] * (2 \div x.q[2])
      a == m \div 2
  IN  IF m % 2 = 0
        THEN IF m <= 0 THEN PosInf ELSE Fin(<<0, 1>>, 1, LnFact(a - 1), 0)
      ELSE IF m > 0
        THEN Fin(<<0, 1>>, 2,
                 LComb(2, LComb(1, LnFact(2 * a), -1, LnFact(a)),
                       -4 * a, LnInt(2)), 1)
      ELSE Fin(<<0, 1>>, 2,
               LComb(2, LComb(1, LnFact(-a), -1, LnFact(-2 * a)),
                     -4 * a, LnInt(2)), 1)

cutoff == 1000

(* binomial_coefficient_log<int,int>, the instance binomial_log calls: in
   the second branch N/(N-n) and 1/(12*N) are integer divisions. *)
\* the branch chosen as "asymptotic once N or N-n exceeds the cutoff"
uses_lgamma_unless_either(N_, n_) == (N_ <= cutoff) /\ (N_ - n_ <= cutoff)

\* whether the three-lgamma branch is taken, line 286
uses_lgamma(N_, n_) == (N_ < cutoff) \/ (N_ - n_ < cutoff)

binomial_coefficient_log(N_, n_) ==
  IF uses_lgamma(N_, n_)
    THEN Sub(Sub(lgamma(NumInt(N_ + 1)), lgamma(NumInt(n_ + 1))),
             lgamma(NumInt(N_ - n_ + 1)))
  ELSE Sub(Sub(Sub(Add(Add(Scale(RInt(n_), log(NumInt(N_ - n_))),
                           Scale(Rat(2 * N_ + 1, 2),
                                 log(NumInt(N_ \div (N_ - n_))))),
                       NumInt(1 \div (12 * N_))),
                   NumInt(n_)),
               NumInt(1 \div (12 * (N_ - n_)))),
           lgamma(NumInt(n_ + 1)))

\* a domain check that also rejects -1
log1p_throws_at_boundary(x) == Le(x, NumInt(-1))

\* the domain check of log1p, line 543
log1p_throws(x) == Lt(x, NumInt(-1))

(* A value that is no rational combination of logarithms is kept as the
   expression that forms it: exp(d) for a finite rational d /= 0 is
   [k |-> "exp", of |-> d]; it is positive and finite. *)
Symbolic == {"exp", "log1pexp", "taylor2exp", "logsum", "plus"}

\* ln(P) in millionths, for the powers of ten of log1p's thresholds
LnMicro(P) == IF P = 10^9 THEN 20723266 ELSE IF P = 10^8 THEN 18420681 ELSE 0

\* exp(d) > 1/(P1*P2) for a finite rational d
ExpAbove(d, P1, P2) ==
  d.q[1] * 1000000 > (0 - (LnMicro(P1) + LnMicro(P2))) * d.q[2]

\* log1p without its second-order branch
log1p_regime_first_order(x) ==
  IF x.k = "exp"
    THEN (IF ExpAbove(x.of, 10^9, 1) THEN "direct" ELSE "taylor1")
  ELSE IF GtRecip(x, 10^9, 1) \/ GtRecip(Neg(x), 10^9, 1) THEN "direct"
  ELSE "taylor1"

\* the branch log1p takes at x, lines 546-551
log1p_regime(x) ==
  IF x.k = "exp"
    THEN (IF ExpAbove(x.of, 10^9, 1) THEN "direct"
          ELSE IF ExpAbove(x.of, 10^8, 10^8) THEN "taylor2"
          ELSE "taylor1")
  ELSE IF GtRecip(x, 10^9, 1) \/ GtRecip(Neg(x), 10^9, 1) THEN "direct"
  ELSE IF GtRecip(x, 10^8, 10^8) \/ GtRecip(Neg(x), 10^8, 10^8)
    THEN "taylor2"
  ELSE "taylor1"

\* log1p for x >= -1 (for x < -1 it throws, see log1p_throws)
log1p(x) ==
  IF log1p_regime(x) = "direct"
    THEN (IF x.k = "exp" THEN [k |-> "log1pexp", of |-> x.of]
          ELSE IF x.k = "tiny" THEN [k |-> "log1ptiny", of |-> x]
          ELSE log(Add(NumInt(1), x)))
  ELSE IF log1p_regime(x) = "taylor2"
    THEN (IF x.k = "exp" THEN [k |-> "taylor2exp", of |-> x.of]
          ELSE IF x.k = "tiny" THEN [k |-> "taylor2tiny", of |-> x]
          ELSE Sub(x, RatMul(Scale(<<1, 2>>, x), x)))
  ELSE x

log1m(x) == log1p(Neg(x))

\* multiply_log(a, b) for a finite rational a
\* a special case that is never taken
both_zero_never(a, b) == FALSE

\* the special case of multiply_log, line 641
both_zero(a, b) == b = Zero /\ a[1] = 0

multiply_log(a, b) ==
  IF both_zero(a, b) THEN Zero ELSE Scale(a, log(b))

LOG_PI_OVER_FOUR == Scale(<<1, 4>>, LnPi)

RECURSIVE lmgamma_loop(_, _, _, _)
\* the loop of lmgamma from iteration j on
lmgamma_loop(j, k_, x, result) ==
  IF j <= k_
    THEN lmgamma_loop(j + 1, k_, x,
                      Add(result, lgamma(Add(x, NumRat(Rat(1 - j, 2))))))
  ELSE result

lmgamma(k_, x) ==
  lmgamma_loop(1, k_, x, Scale(RInt(k_ * (k_ - 1)), LOG_PI_OVER_FOUR))

\* std::exp of a rational or non-finite number
exp(a) ==
  IF a.k = "nan" THEN NaN
  ELSE IF a.k = "ninf" THEN Zero
  ELSE IF a.k = "pinf" THEN PosInf
  ELSE IF a = Zero THEN NumInt(1)
  ELSE [k |-> "exp", of |-> a]

\* a + v where v may be a symbolic value, which is finite
Plus(a, v) ==
  IF v.k \in Symbolic
    THEN (IF a.k /= "fin" THEN a
          ELSE IF a = Zero THEN v
          ELSE [k |-> "plus", base |-> a, of |-> v])
  ELSE Add(a, v)

\* pairwise log_sum_exp: which argument is the offset, lines 716-718
log_sum_exp_offset_first(a, b) == TRUE
log_sum_exp_offset(a, b) == Lt(b, a)

\* the argument handed to exp
log_sum_exp_exparg(a, b) ==
  IF log_sum_exp_offset(a, b) THEN Sub(b, a) ELSE Sub(a, b)

log_sum_exp(a, b) ==
  IF log_sum_exp_offset(a, b)
    THEN Plus(a, log1p(exp(Sub(b, a))))
  ELSE Plus(b, log1p(exp(Sub(a, b))))

(* The running sum of the n-ary log_sum_exp: 0.0 plus the exponentials
   added so far, in order; adding an exact 0 leaves it as it is. *)
SumZero == [k |-> "fin", terms |-> <<>>]

SumAdd(s, e) ==
  IF s.k = "nan" \/ e.k = "nan" THEN [k |-> "nan", terms |-> <<>>]
  ELSE IF s.k = "pinf" \/ e.k = "pinf" THEN [k |-> "pinf", terms |-> <<>>]
  ELSE IF e = Zero THEN s
  ELSE [k |-> "fin", terms |-> Append(s.terms, e)]

\* std::log of a running sum
LogOfSum(s) ==
  IF s.k = "nan" THEN NaN
  ELSE IF s.k = "pinf" THEN PosInf
  ELSE IF s.terms = <<>> THEN NegInf
  ELSE IF s.terms = <<NumInt(1)>> THEN Zero
  ELSE [k |-> "logsum", terms |-> s.terms]

\* whether the n-ary log_sum_exp adds the entry v to its sum, line 763
lse_summand_every(v) == TRUE
lse_summand(v) == v /= NegInf

(* ----------------------- validation framework ------------------------- *)
\* the default policy's substitute value
Sentinel == NaN

check_bounded(x, low, high) == Le(low, x) /\ Le(x, high)
check_nonnegative(x) == Le(Zero, x)
check_finite(x) == x.k = "fin"
check_greater_or_equal(x, low) == Le(low, x)
check_size_match(i, j) == i = j

\* what a check leaves in the accumulator *result it is handed
check_writes(ok, result) == IF ok THEN result ELSE Sentinel

(* ---------------------- proportionality optimizer --------------------- *)
\* include_summand<propto, T...>::value, Ts the set of the listed types
include_summand(propto_, Ts) == ~propto_ \/ "var" \in Ts

ScalarTypes == {"double", "var"}

(* ------------------------------ state --------------------------------- *)
VARIABLES
  fn,       \* the function called
  pc,       \* the statement the call is at
  n, N, theta, T_prob,                \* binomial_log's arguments
  W, nu, S, T_y, T_dof, T_scale, k,   \* wishart_log's arguments and local k
  propto,   \* the proportionality flag of the call
  lp,       \* the accumulator
  checks,   \* the checks run so far: <<[arg, ok], ...>>
  added,    \* the terms accumulated so far: <<[id, v], ...>>
  calls,    \* the linear-algebra and lmgamma calls made so far
  ret       \* the value returned

evars == <<pc, n, N, theta, T_prob, W, nu, S, T_y, T_dof, T_scale, k,
           propto, lp, checks, added, calls, ret>>

(* ---------------------------- binomial_log ---------------------------- *)
ThetaVals ==
  {NumRat(Rat(t, ThetaDen)) : t \in (-1)..(ThetaDen + 1)} \cup {NaN, PosInf}

\* a coefficient term that is never elided
include_coefficient_always(propto_) == TRUE

include_coefficient(propto_) == include_summand(propto_, {})
\* a theta-dependent part that is never elided
include_theta_always(propto_, T) == TRUE

include_theta(propto_, T) == include_summand(propto_, {T})

\* the two terms of binomial_log
binomial_term(id, n_, N_, theta_) ==
  IF id = "coefficient" THEN binomial_coefficient_log(N_, n_)
  ELSE Add(multiply_log(RInt(n_), theta_),
           Scale(RInt(N_ - n_), log1m(theta_)))

\* lines 51-52 and 53-55 as maps on the accumulator
binomial_add_coefficient(propto_, n_, N_, a) ==
  IF include_coefficient(propto_)
    THEN Add(a, binomial_term("coefficient", n_, N_, Zero)) ELSE a

binomial_add_theta(propto_, T, n_, N_, theta_, a) ==
  IF include_theta(propto_, T)
    THEN Add(a, binomial_term("theta", n_, N_, theta_)) ELSE a

\* the arguments the checks of binomial_log are about, in the code's order
BinomialChecks == <<"n", "N", "theta", "theta">>

\* the j-th check of binomial_log, lines 30, 34, 38 and 42
binomial_check(j, n_, N_, theta_) ==
  IF j = 1 THEN check_bounded(NumInt(n_), Zero, NumInt(N_))
  ELSE IF j = 2 THEN check_nonnegative(NumInt(N_))
  ELSE IF j = 3 THEN check_finite(theta_)
  ELSE check_bounded(theta_, Zero, NumInt(1))

\* whether every check of binomial_log passes
binomial_valid(n_, N_, theta_) ==
  \A j \in 1..Len(BinomialChecks) : binomial_check(j, n_, N_, theta_)

\* the value binomial_log<propto_, T> returns on an input that passes
binomial_value(propto_, T, n_, N_, theta_) ==
  binomial_add_theta(propto_, T, n_, N_, theta_,
                     binomial_add_coefficient(propto_, n_, N_, Zero))

(* ------------------------------ matrices ------------------------------ *)
(* A matrix is [rows, cols, e] with e[<<i, j>>] its entries.  The matrices
   drawn are non-singular whenever they are square: the identity, twice
   the identity, minus the identity and the upper triangle of ones. *)
Fills == {"identity", "twice", "minus", "upper"}

FillEntry(f, i, j) ==
  IF f = "identity" THEN (IF i = j THEN 1 ELSE 0)
  ELSE IF f = "twice" THEN (IF i = j THEN 2 ELSE 0)
  ELSE IF f = "minus" THEN (IF i = j THEN -1 ELSE 0)
  ELSE (IF i <= j THEN 1 ELSE 0)

Mat(r, c, f) ==
  [rows |-> r, cols |-> c,
   e |-> [ij \in (1..r) \X (1..c) |-> FillEntry(f, ij[1], ij[2])]]

Matrices == {Mat(r, c, f) : r \in 0..MaxDim, c \in 0..MaxDim, f \in Fills}

identity(d) == Mat(d, d, "identity")

\* the sequence s without its j-th element
Without(s, j) == [i \in 1..(Len(s) - 1) |-> IF i < j THEN s[i] ELSE s[i + 1]]

RECURSIVE Minor(_, _, _)
RECURSIVE Laplace(_, _, _, _)
\* determinant of the sub-matrix of e on rows rs and columns cs
Minor(e, rs, cs) ==
  IF Len(rs) = 0 THEN 1 ELSE Laplace(e, rs, cs, 1)

\* expansion along the first row of rs, from column index j on
Laplace(e, rs, cs, j) ==
  IF j > Len(cs) THEN 0
  ELSE (IF j % 2 = 1 THEN 1 ELSE -1) * e[<<rs[1], cs[j]>>]
         * Minor(e, Tail(rs), Without(cs, j))
       + Laplace(e, rs, cs, j + 1)

Indices(d) == [i \in 1..d |-> i]

\* determinant of a square integer matrix (1 for the 0 x 0 matrix)
determinant(M) == NumInt(Minor(M.e, Indices(M.rows), Indices(M.cols)))

\* inverse of a non-singular square integer matrix, entries rational
inverse(M) ==
  LET d == Minor(M.e, Indices(M.rows), Indices(M.cols))
      cof(i, j) == (IF (i + j) % 2 = 0 THEN 1 ELSE -1)
                   * Minor(M.e, Without(Indices(M.rows), i),
                           Without(Indices(M.cols), j))
  IN  [rows |-> M.rows, cols |-> M.cols,
       e |-> [ij \in (1..M.rows) \X (1..M.cols) |->
                Rat(cof(ij[2], ij[1]), d)]]

RECURSIVE DotFrom(_, _, _, _, _)
\* SUM_{t >= m} A[i,t] * B[t,j], A rational and B integer
DotFrom(A, B, i, j, m) ==
  IF m > A.cols THEN <<0, 1>>
  ELSE RAdd(RMul(A.e[<<i, m>>], RInt(B.e[<<m, j>>])),
            DotFrom(A, B, i, j, m + 1))

multiply(A, B) ==
  [rows |-> A.rows, cols |-> B.cols,
   e |-> [ij \in (1..A.rows) \X (1..B.cols) |->
            DotFrom(A, B, ij[1], ij[2], 1)]]

RECURSIVE TraceFrom(_, _)
TraceFrom(A, i) ==
  IF i > A.rows THEN <<0, 1>> ELSE RAdd(A.e[<<i, i>>], TraceFrom(A, i + 1))

trace(A) == NumRat(TraceFrom(A, 1))

(* ----------------------------- wishart_log ---------------------------- *)
NuVals == (-2)..(MaxDim + 2)

(* unsigned 32-bit values as <<high, low>> 16-bit halves *)
U32(v) == <<v \div 2^16, v % 2^16>>

\* u - 1 in unsigned 32-bit arithmetic
U32Dec(u) ==
  IF u[2] > 0 THEN <<u[1], u[2] - 1>>
  ELSE IF u[1] > 0 THEN <<u[1] - 1, 2^16 - 1>>
  ELSE <<2^16 - 1, 2^16 - 1>>

\* x >= u for an integer-valued double x below 2^31 and an unsigned u
GeU32(x, u) == u[1] < 2^15 /\ x >= u[1] * 2^16 + u[2]

NEG_LOG_TWO_OVER_TWO == Scale(<<-1, 2>>, log(NumInt(2)))

include_dof(propto_, Ty, Tdof, Tscale) == include_summand(propto_, {Tdof})
include_lmgamma(propto_, Ty, Tdof, Tscale) == include_summand(propto_, {Tdof})
\* the det(S) term keyed on the type of nu alone
include_detS_dof_only(propto_, Ty, Tdof, Tscale) ==
  include_summand(propto_, {Tdof})

include_detS(propto_, Ty, Tdof, Tscale) ==
  include_summand(propto_, {Tdof, Tscale})
include_trace(propto_, Ty, Tdof, Tscale) ==
  include_summand(propto_, {Tscale, Ty})
include_detW(propto_, Ty, Tdof, Tscale) ==
  include_summand(propto_, {Ty, Tdof})

WishartTerms == <<"dof", "lmgamma", "detS", "trace", "detW">>

\* the template-level condition on the term id
wishart_include(id, propto_, Ty, Tdof, Tscale) ==
  IF id = "dof" THEN include_dof(propto_, Ty, Tdof, Tscale)
  ELSE IF id = "lmgamma" THEN include_lmgamma(propto_, Ty, Tdof, Tscale)
  ELSE IF id = "detS" THEN include_detS(propto_, Ty, Tdof, Tscale)
  ELSE IF id = "trace" THEN include_trace(propto_, Ty, Tdof, Tscale)
  ELSE include_detW(propto_, Ty, Tdof, Tscale)

\* a det(W) term with no run-time condition
detW_guard_none(nu_, k_) == TRUE

\* the run-time condition on the last term, line 91
detW_guard(nu_, k_) == nu_ /= k_ + 1

\* the signed value each statement of lines 78-95 adds to lp
wishart_term(id, W_, nu_, S_) ==
  LET k_ == W_.rows
  IN  IF id = "dof" THEN Scale(RInt(nu_ * k_), NEG_LOG_TWO_OVER_TWO)
      ELSE IF id = "lmgamma" THEN Neg(lmgamma(k_, NumRat(Rat(nu_, 2))))
      ELSE IF id = "detS"
        THEN Neg(multiply_log(Rat(nu_, 2), determinant(S_)))
      ELSE IF id = "trace"
        THEN Neg(Scale(<<1, 2>>, fabs(trace(multiply(inverse(S_), W_)))))
      ELSE multiply_log(Rat(nu_ - (k_ + 1), 2), determinant(W_))

\* whether statement j of lines 78-95 adds its term
wishart_adds(j, propto_, Ty, Tdof, Tscale, W_, nu_) ==
  /\ wishart_include(WishartTerms[j], propto_, Ty, Tdof, Tscale)
  /\ WishartTerms[j] = "detW" => detW_guard(nu_, W_.rows)

RECURSIVE wishart_accumulate(_, _, _, _, _, _, _, _, _)
\* lines 77-97 from statement j on, a the accumulator
wishart_accumulate(j, propto_, Ty, Tdof, Tscale, W_, nu_, S_, a) ==
  IF j > Len(WishartTerms) THEN a
  ELSE wishart_accumulate(j + 1, propto_, Ty, Tdof, Tscale, W_, nu_, S_,
         IF wishart_adds(j, propto_, Ty, Tdof, Tscale, W_, nu_)
           THEN Add(a, wishart_term(WishartTerms[j], W_, nu_, S_))
           ELSE a)

\* the value wishart_log<propto_, Ty, Tdof, Tscale> returns on a valid input
wishart_value(propto_, Ty, Tdof, Tscale, W_, nu_, S_) ==
  wishart_accumulate(1, propto_, Ty, Tdof, Tscale, W_, nu_, S_, Zero)

\* the arguments the checks of wishart_log are about, in the code's order
WishartChecks == <<"nu", "W", "S", "W,S">>

\* check_greater_or_equal(function, nu, k - 1, ...) with k unsigned
check_nu(nu_, k_) == GeU32(nu_, U32Dec(U32(k_)))

\* the j-th check of wishart_log, lines 59, 62, 64 and 66
wishart_check(j, W_, nu_, S_) ==
  IF j = 1 THEN check_nu(nu_, W_.rows)
  ELSE IF j = 2 THEN check_size_match(W_.rows, W_.cols)
  ELSE IF j = 3 THEN check_size_match(S_.rows, S_.cols)
  ELSE check_size_match(W_.rows, S_.rows)

\* whether every check of wishart_log passes
wishart_valid(W_, nu_, S_) ==
  \A j \in 1..Len(WishartChecks) : wishart_check(j, W_, nu_, S_)

(* ------------- the state of a special-function call ------------------- *)
\* a call of softmax(x, simplex) or inverse_softmax(simplex, y)
VARIABLES
  mpc,      \* the statement the call is at
  x, simplex, y,   \* the vectors, indexed from 0 as in the code
  sum, max_x, i,   \* softmax's locals; i is the running loop's index
  expargs,  \* the arguments handed to exp so far
  wlog,     \* the writes to the output so far: <<pass, index>>
  mret,     \* how the call ended: "none", "returned", "invalid_argument"
  iters     \* the number of loop bodies the call has executed

mvars == <<mpc, x, simplex, y, sum, max_x, i, expargs, wlog, mret, iters>>

\* the arguments, locals and outcome of a call of a scalar function
VARIABLE frame

vars == <<fn, evars, mvars, frame>>

(* ------------------------ the evaluators' steps ----------------------- *)
NoMatrix == Mat(0, 0, "identity")
Exception == Special("exception")

binomial_args == <<n, N, theta, T_prob>>
wishart_args == <<W, nu, S, T_y, T_dof, T_scale, k>>

\* binomial_log entered: lp(0.0) at line 29
InitBinomial ==
  /\ fn = "binomial_log" /\ pc = "b_check_n"
  /\ n \in (-1)..MaxN /\ N \in (-1)..MaxN /\ theta \in ThetaVals
  /\ T_prob \in ScalarTypes /\ propto \in BOOLEAN
  /\ W = NoMatrix /\ S = NoMatrix /\ nu = 0 /\ k = 0
  /\ T_y = "double" /\ T_dof = "double" /\ T_scale = "double"
  /\ lp = Zero
  /\ checks = <<>> /\ added = <<>> /\ calls = <<>> /\ ret = Uninit

\* wishart_log entered: k = W.rows() and an unwritten lp, lines 57-58
InitWishart ==
  /\ fn = "wishart_log" /\ pc = "w_check_nu"
  /\ W \in Matrices /\ S \in Matrices /\ nu \in NuVals
  /\ T_y \in ScalarTypes /\ T_dof \in ScalarTypes /\ T_scale \in ScalarTypes
  /\ propto \in BOOLEAN
  /\ k = W.rows
  /\ n = 0 /\ N = 0 /\ theta = Zero /\ T_prob = "double"
  /\ lp = Uninit
  /\ checks = <<>> /\ added = <<>> /\ calls = <<>> /\ ret = Uninit

\* "if (!check_...(..., &lp, Policy())) return lp;"
Check(at, arg, ok, next) ==
  /\ pc = at
  /\ checks' = Append(checks, [arg |-> arg, ok |-> ok])
  /\ lp' = check_writes(ok, lp)
  /\ IF ok THEN pc' = next /\ ret' = ret
           ELSE pc' = "done" /\ ret' = lp'
  /\ UNCHANGED <<fn, binomial_args, wishart_args, propto, added, calls,
                 mvars, frame>>

\* "if (include_summand<...>::value) lp += v;", returning lp when last
AddTerm(at, id, included, v, start, made, next) ==
  /\ pc = at
  /\ added' = IF included THEN Append(added, [id |-> id, v |-> v]) ELSE added
  /\ lp' = IF included THEN Add(start, v) ELSE start
  /\ calls' = IF included THEN calls \o made ELSE calls
  /\ pc' = next
  /\ ret' = IF next = "done" THEN lp' ELSE ret
  /\ UNCHANGED <<fn, binomial_args, wishart_args, propto, checks, mvars,
                 frame>>

\* the check of n against its lower bound only
b_check_n_lower_only ==
  Check("b_check_n", "n", check_nonnegative(NumInt(n)), "b_check_N")

b_check_n ==
  Check("b_check_n", "n", binomial_check(1, n, N, theta), "b_check_N")

b_check_N ==
  Check("b_check_N", "N", binomial_check(2, n, N, theta), "b_check_finite")

b_check_finite ==
  Check("b_check_finite", "theta", binomial_check(3, n, N, theta),
        "b_check_theta")

b_check_theta ==
  Check("b_check_theta", "theta", binomial_check(4, n, N, theta),
        "b_coefficient")

b_coefficient ==
  AddTerm("b_coefficient", "coefficient", include_coefficient(propto),
          binomial_term("coefficient", n, N, theta), lp, <<>>, "b_theta")

\* lines 53-56; log1m throws when its argument exceeds 1
b_theta ==
  IF include_theta(propto, T_prob) /\ log1p_throws(Neg(theta))
    THEN /\ pc = "b_theta"
         /\ pc' = "done" /\ ret' = Exception
         /\ UNCHANGED <<fn, binomial_args, wishart_args, propto, lp,
                        checks, added, calls, mvars, frame>>
  ELSE AddTerm("b_theta", "theta", include_theta(propto, T_prob),
               binomial_term("theta", n, N, theta), lp, <<>>, "done")

\* the degrees-of-freedom check followed at once by the check of S
w_check_nu_skips_W ==
  Check("w_check_nu", "nu", check_nu(nu, k), "w_check_S")

\* no degrees-of-freedom check
w_check_nu_omitted ==
  /\ pc = "w_check_nu"
  /\ pc' = "w_check_W"
  /\ UNCHANGED <<fn, binomial_args, wishart_args, propto, lp, checks, added,
                 calls, ret, mvars, frame>>

w_check_nu ==
  Check("w_check_nu", "nu", check_nu(nu, k), "w_check_W")

w_check_W ==
  Check("w_check_W", "W", wishart_check(2, W, nu, S), "w_check_S")

w_check_S ==
  Check("w_check_S", "S", wishart_check(3, W, nu, S), "w_check_WS")

\* the last check without its return
w_check_WS_falls_through ==
  /\ pc = "w_check_WS"
  /\ checks' = Append(checks, [arg |-> "W,S",
                               ok |-> wishart_check(4, W, nu, S)])
  /\ lp' = check_writes(wishart_check(4, W, nu, S), lp)
  /\ pc' = "w_dof"
  /\ UNCHANGED <<fn, binomial_args, wishart_args, propto, added, calls, ret,
                 mvars, frame>>

w_check_WS ==
  Check("w_check_WS", "W,S", wishart_check(4, W, nu, S), "w_dof")

\* lines 77-79: lp = 0.0, then the first term
w_dof ==
  AddTerm("w_dof", "dof", include_dof(propto, T_y, T_dof, T_scale),
          wishart_term("dof", W, nu, S), Zero, <<>>, "w_lmgamma")

w_lmgamma ==
  AddTerm("w_lmgamma", "lmgamma",
          include_lmgamma(propto, T_y, T_dof, T_scale),
          wishart_term("lmgamma", W, nu, S), lp, <<"lmgamma">>, "w_detS")

w_detS ==
  AddTerm("w_detS", "detS", include_detS(propto, T_y, T_dof, T_scale),
          wishart_term("detS", W, nu, S), lp, <<"determinant(S)">>,
          "w_trace")

w_trace ==
  AddTerm("w_trace", "trace", include_trace(propto, T_y, T_dof, T_scale),
          wishart_term("trace", W, nu, S), lp,
          <<"inverse(S)", "multiply", "trace">>, "w_detW")

\* lines 90-97
w_detW ==
  AddTerm("w_detW", "detW",
          include_detW(propto, T_y, T_dof, T_scale) /\ detW_guard(nu, k),
          wishart_term("detW", W, nu, S), lp, <<"determinant(W)">>, "done")

(* ------------------- softmax and inverse_softmax ---------------------- *)
(* Vectors are functions on 0..size-1.  An element softmax writes is kept
   symbolically: exp(d), or exp(d) divided by the sum of exp over the
   exponents in "over"; "old" is what the caller left there. *)
Vec(sq) == [j \in 0..(Len(sq) - 1) |-> sq[j + 1]]
size(v) == Cardinality(DOMAIN v)

RECURSIVE SeqsOf(_, _)
\* the sequences over V of length len
SeqsOf(V, len) ==
  IF len = 0 THEN {<<>>}
  ELSE {Append(sq, v) : sq \in SeqsOf(V, len - 1), v \in V}

VecsOf(V) == UNION {{Vec(sq) : sq \in SeqsOf(V, len)} : len \in 0..MaxLen}

Old == [tag |-> "old", d |-> 0, over |-> <<>>]
ExpOf(d) == [tag |-> "exp", d |-> d, over |-> <<>>]
Quot(el, s) == [tag |-> "quot", d |-> el.d, over |-> s]

EmptyVec == Vec(<<>>)

IdleEvaluators ==
  /\ pc = "idle"
  /\ n = 0 /\ N = 0 /\ theta = Zero /\ T_prob = "double"
  /\ W = NoMatrix /\ S = NoMatrix /\ nu = 0 /\ k = 0
  /\ T_y = "double" /\ T_dof = "double" /\ T_scale = "double"
  /\ propto = FALSE /\ lp = Uninit
  /\ checks = <<>> /\ added = <<>> /\ calls = <<>> /\ ret = Uninit

IdleMath ==
  /\ mpc = "idle"
  /\ x = EmptyVec /\ simplex = EmptyVec /\ y = EmptyVec
  /\ sum = <<>> /\ max_x = 0 /\ i = 0
  /\ expargs = <<>> /\ wlog = <<>> /\ mret = "none" /\ iters = 0

\* softmax(x, simplex) entered, x and simplex distinct vectors
InitSoftmax ==
  /\ fn = "softmax" /\ mpc = "s_check"
  /\ x \in VecsOf(0..MaxX)
  /\ simplex \in VecsOf({Old})
  /\ y = EmptyVec
  /\ sum = <<>> /\ max_x = 0 /\ i = 0
  /\ expargs = <<>> /\ wlog = <<>> /\ mret = "none" /\ iters = 0

\* inverse_softmax(simplex, y) entered, simplex and y distinct vectors
InitInverseSoftmax ==
  /\ fn = "inverse_softmax" /\ mpc = "is_check"
  /\ simplex \in VecsOf({Zero, NumRat(<<1, 2>>), NumInt(1)})
  /\ y \in VecsOf({Special("old")})
  /\ x = EmptyVec
  /\ sum = <<>> /\ max_x = 0 /\ i = 0
  /\ expargs = <<>> /\ wlog = <<>> /\ mret = "none" /\ iters = 0

Throw(at, what) ==
  /\ mpc = at
  /\ mpc' = "done" /\ mret' = what
  /\ UNCHANGED <<fn, x, simplex, y, sum, max_x, i, expargs, wlog, iters,
                 evars, frame>>

\* softmax without its size check
s_check_unchecked ==
  /\ mpc = "s_check"
  /\ sum' = <<>>
  /\ mpc' = "max_enter"
  /\ UNCHANGED <<fn, x, simplex, y, max_x, i, expargs, wlog, mret, iters,
                 evars, frame>>

\* lines 487-489
s_check ==
  IF size(x) /= size(simplex) THEN Throw("s_check", "invalid_argument")
  ELSE /\ mpc = "s_check"
       /\ sum' = <<>>
       /\ mpc' = "max_enter"
       /\ UNCHANGED <<fn, x, simplex, y, max_x, i, expargs, wlog, mret,
                      iters, evars, frame>>

\* maximum, lines 424-426
max_enter ==
  IF size(x) = 0 THEN Throw("max_enter", "invalid_argument")
  ELSE /\ mpc = "max_enter"
       /\ max_x' = x[0]
       /\ i' = 1
       /\ mpc' = "max_loop"
       /\ UNCHANGED <<fn, x, simplex, y, sum, expargs, wlog, mret, iters,
                      evars, frame>>

\* maximum, lines 427-430; its return value is softmax's max_x, line 490
max_loop ==
  /\ mpc = "max_loop"
  /\ IF i < size(x)
       THEN /\ max_x' = IF x[i] < max_x THEN x[i] ELSE max_x
            /\ i' = i + 1
            /\ iters' = iters + 1
            /\ mpc' = mpc
       ELSE /\ max_x' = max_x
            /\ i' = 0
            /\ iters' = iters
            /\ mpc' = "s_pass1"
  /\ UNCHANGED <<fn, x, simplex, y, sum, expargs, wlog, mret, evars, frame>>

\* lines 491-494
s_pass1 ==
  /\ mpc = "s_pass1"
  /\ IF i < size(x)
       THEN /\ expargs' = Append(expargs, x[i] - max_x)
            /\ simplex' = [simplex EXCEPT ![i] = ExpOf(x[i] - max_x)]
            /\ wlog' = Append(wlog, <<1, i>>)
            /\ sum' = Append(sum, x[i] - max_x)
            /\ i' = i + 1
            /\ iters' = iters + 1
            /\ mpc' = mpc
       ELSE /\ i' = 0
            /\ mpc' = "s_pass2"
            /\ UNCHANGED <<expargs, simplex, wlog, sum, iters>>
  /\ UNCHANGED <<fn, x, y, max_x, mret, evars, frame>>

\* lines 495-497
s_pass2 ==
  /\ mpc = "s_pass2"
  /\ IF i < size(x)
       THEN /\ simplex' = [simplex EXCEPT ![i] = Quot(simplex[i], sum)]
            /\ wlog' = Append(wlog, <<2, i>>)
            /\ i' = i + 1
            /\ iters' = iters + 1
            /\ mpc' = mpc /\ mret' = mret
       ELSE /\ mpc' = "done" /\ mret' = "returned"
            /\ UNCHANGED <<simplex, wlog, i, iters>>
  /\ UNCHANGED <<fn, x, y, sum, max_x, expargs, evars, frame>>

\* lines 524-525
is_check ==
  IF size(simplex) /= size(y) THEN Throw("is_check", "invalid_argument")
  ELSE /\ mpc = "is_check"
       /\ i' = 0
       /\ mpc' = "is_loop"
       /\ UNCHANGED <<fn, x, simplex, y, sum, max_x, expargs, wlog, mret,
                      iters, evars, frame>>

\* lines 526-528
is_loop ==
  /\ mpc = "is_loop"
  /\ IF i < size(simplex)
       THEN /\ y' = [y EXCEPT ![i] = log(simplex[i])]
            /\ wlog' = Append(wlog, <<1, i>>)
            /\ i' = i + 1
            /\ iters' = iters + 1
            /\ mpc' = mpc /\ mret' = mret
       ELSE /\ mpc' = "done" /\ mret' = "returned"
            /\ UNCHANGED <<y, wlog, i, iters>>
  /\ UNCHANGED <<fn, x, simplex, sum, max_x, expargs, evars, frame>>

(* ----------------------- log_sum_exp, n-ary --------------------------- *)
\* the entries of the vectors log_sum_exp is called on
LseVals == {NegInf, PosInf} \cup {NumInt(v) : v \in 0..MaxX}

\* log_sum_exp(x) entered; max_x is its local max, i its ii; line 756
InitLogSumExp ==
  /\ fn = "log_sum_exp" /\ mpc = "lse_max"
  /\ x \in VecsOf(LseVals)
  /\ simplex = EmptyVec /\ y = EmptyVec
  /\ max_x = NegInf
  /\ sum = <<>> /\ i = 0
  /\ expargs = <<>> /\ wlog = <<>> /\ mret = "none" /\ iters = 0

\* lines 757-761
lse_max ==
  /\ mpc = "lse_max"
  /\ IF i < size(x)
       THEN /\ max_x' = IF Lt(max_x, x[i]) THEN x[i] ELSE max_x
            /\ i' = i + 1
            /\ iters' = iters + 1
            /\ UNCHANGED <<mpc, sum>>
       ELSE /\ sum' = SumZero
            /\ i' = 0
            /\ mpc' = "lse_sum"
            /\ UNCHANGED <<max_x, iters>>
  /\ UNCHANGED <<fn, x, simplex, y, expargs, wlog, mret, evars, frame>>

\* lines 762-764
lse_sum ==
  /\ mpc = "lse_sum"
  /\ IF i < size(x)
       THEN /\ IF lse_summand(x[i])
                 THEN /\ expargs' = Append(expargs, Sub(x[i], max_x))
                      /\ sum' = SumAdd(sum, exp(Sub(x[i], max_x)))
                 ELSE UNCHANGED <<expargs, sum>>
            /\ i' = i + 1
            /\ iters' = iters + 1
            /\ mpc' = mpc
       ELSE /\ mpc' = "lse_return"
            /\ UNCHANGED <<expargs, sum, i, iters>>
  /\ UNCHANGED <<fn, x, simplex, y, max_x, wlog, mret, evars, frame>>

\* line 766
lse_return ==
  /\ mpc = "lse_return"
  /\ mret' = Plus(max_x, LogOfSum(sum))
  /\ mpc' = "done"
  /\ UNCHANGED <<fn, x, simplex, y, sum, max_x, i, expargs, wlog, iters,
                 evars, frame>>

(* ------------------------- lmgamma, its loop -------------------------- *)
\* the loop bodies followed in one call
MaxIters == 6

U32Max == <<2^16 - 1, 2^16 - 1>>

\* u + 1 in unsigned 32-bit arithmetic
U32Inc(u) ==
  IF u[2] < 2^16 - 1 THEN <<u[1], u[2] + 1>>
  ELSE IF u[1] < 2^16 - 1 THEN <<u[1] + 1, 0>>
  ELSE <<0, 0>>

U32Le(u, v) == u[1] < v[1] \/ (u[1] = v[1] /\ u[2] <= v[2])

\* the value of u as an integer, for u below 2^31
U32Val(u) == u[1] * 2^16 + u[2]

\* the value of u read as a signed 32-bit integer
U32Signed(u) == IF u[1] < 2^15 THEN U32Val(u) ELSE (u[1] - 2^16) * 2^16 + u[2]

\* u * v in unsigned 32-bit arithmetic, for u and v within 2^15 of 0 or 2^32
U32Mul(u, v) ==
  LET p == U32Signed(u) * U32Signed(v)
  IN  <<(p \div 2^16) % 2^16, p % 2^16>>

\* a count of iterations, which does not wrap
CountInc(c) == IF c[2] < 2^16 - 1 THEN <<c[1], c[2] + 1>> ELSE <<c[1] + 1, 0>>

LmgammaK == {U32(v) : v \in 0..(MaxDim + 1)} \cup {U32Max}
LmgammaX == {NumRat(Rat(t, 2)) : t \in 1..(MaxDim + 1)}

(* lmgamma(k, x) entered, or, for k = 2^32-1, at the head of its loop with
   j = 2^32-2: the loop gets there from j = 1 after 2^32-3 iterations,
   j <= k holding at each, with result = +infinity since lgamma's pole at
   j = 2x+1. *)
InitLmgamma ==
  /\ fn = "lmgamma"
  /\ \/ frame \in {[op |-> "lmgamma", at |-> "enter", k |-> u, x |-> v] :
                     u \in LmgammaK, v \in LmgammaX}
     \/ frame \in {[op |-> "lmgamma", at |-> "loop", k |-> U32Max, x |-> v,
                      j |-> U32Dec(U32Max), result |-> PosInf,
                      iters |-> U32Dec(U32Dec(U32Max)), followed |-> 0] :
                     v \in LmgammaX}

\* lines 592-594: result = k * (k - 1) * LOG_PI_OVER_FOUR and j = 1
lm_enter ==
  /\ frame.op = "lmgamma" /\ frame.at = "enter"
  /\ frame' = [op |-> "lmgamma", at |-> "loop", k |-> frame.k, x |-> frame.x,
               j |-> U32(1),
               result |-> Scale(RInt(U32Val(U32Mul(frame.k, U32Dec(frame.k)))),
                                LOG_PI_OVER_FOUR),
               iters |-> U32(0), followed |-> 0]
  /\ UNCHANGED <<fn, evars, mvars>>

\* the loop's test, line 594
lm_test(u, v) == U32Le(u, v)

(* lines 594-596: one test of j <= k, then the body and ++j, or the
   return.  A result of +infinity stays +infinity, lgamma being finite or
   +infinity. *)
lm_loop ==
  /\ frame.op = "lmgamma" /\ frame.at = "loop"
  /\ frame.followed < MaxIters
  /\ IF lm_test(frame.j, frame.k)
       THEN frame' =
              [frame EXCEPT
                 !.result =
                   IF @ = PosInf THEN PosInf
                   ELSE Add(@, lgamma(Add(frame.x,
                                          NumRat(Rat(1 - U32Val(frame.j),
                                                     2))))),
                 !.j = U32Inc(@),
                 !.iters = CountInc(@),
                 !.followed = @ + 1]
       ELSE frame' = [f \in DOMAIN frame \cup {"ret"} |->
                        IF f = "at" THEN "done"
                        ELSE IF f = "ret" THEN frame.result ELSE frame[f]]
  /\ UNCHANGED <<fn, evars, mvars>>

(* ------------------- calls of the scalar functions -------------------- *)
\* the doubles the scalar functions are called on
LseArgs == {NaN, NegInf, PosInf} \cup {NumInt(v) : v \in (0 - MaxX)..MaxX}
Log1pArgs ==
  {NaN, NegInf, PosInf}
    \cup {NumRat(Rat(t, ThetaDen)) :
            t \in (-2 * ThetaDen - 1)..(2 * ThetaDen + 1)}
    \cup {Tiny(m, e) : m \in {-2, -1, 1, 2}, e \in {9, 10, 16, 17}}
LargeN == {cutoff - 1, cutoff, cutoff + 1, cutoff + MaxN}
MultiplyArgs == {NumRat(Rat(t, 2)) : t \in (-2)..MaxN}

ScalarCalls ==
  {[op |-> "log_sum_exp", at |-> "call", a |-> u, b |-> v] :
     u \in LseArgs, v \in LseArgs}
  \cup {[op |-> o, at |-> "call", x |-> u] :
          o \in {"log1p", "log1m"}, u \in Log1pArgs}
  \cup {[op |-> "binomial_coefficient_log", at |-> "call", N |-> u, n |-> v] :
          u \in (0..MaxN) \cup LargeN, v \in 0..MaxN}
  \cup {[op |-> "multiply_log", at |-> "call", a |-> u, b |-> v] :
          u \in MultiplyArgs,
          v \in MultiplyArgs \cup {NaN, NegInf, PosInf}}

InitScalar == frame \in ScalarCalls /\ fn = frame.op

\* the call in frame returns with the fields out added to its frame
Return(o, out) ==
  /\ frame.op = o /\ frame.at = "call"
  /\ frame' = [f \in DOMAIN frame \cup DOMAIN out |->
                 IF f = "at" THEN "done"
                 ELSE IF f \in DOMAIN out THEN out[f] ELSE frame[f]]
  /\ UNCHANGED <<fn, evars, mvars>>

\* lines 714-719
call_log_sum_exp ==
  Return("log_sum_exp",
         [offset |-> IF log_sum_exp_offset(frame.a, frame.b)
                       THEN frame.a ELSE frame.b,
          exparg |-> log_sum_exp_exparg(frame.a, frame.b),
          ret |-> log_sum_exp(frame.a, frame.b)])

\* lines 541-552
call_log1p ==
  Return("log1p",
         IF log1p_throws(frame.x)
           THEN [thrown |-> TRUE, regime |-> "none", ret |-> Exception]
         ELSE [thrown |-> FALSE, regime |-> log1p_regime(frame.x),
               ret |-> log1p(frame.x)])

\* lines 565-567
call_log1m ==
  Return("log1m",
         IF log1p_throws(Neg(frame.x))
           THEN [thrown |-> TRUE, regime |-> "none", ret |-> Exception]
         ELSE [thrown |-> FALSE, regime |-> log1p_regime(Neg(frame.x)),
               ret |-> log1m(frame.x)])

\* lines 282-292
call_binomial_coefficient_log ==
  Return("binomial_coefficient_log",
         [branch |-> IF uses_lgamma(frame.N, frame.n)
                       THEN "lgamma" ELSE "asymptotic",
          ret |-> binomial_coefficient_log(frame.N, frame.n)])

\* lines 639-644
call_multiply_log ==
  Return("multiply_log",
         [calls |-> IF both_zero(frame.a.q, frame.b)
                      THEN <<>> ELSE <<"log">>,
          ret |-> multiply_log(frame.a.q, frame.b)])

(* -------------------------- specifications ---------------------------- *)
\* no scalar function is being called
NoFrame == [op |-> "none"]
IdleFrame == frame = NoFrame

\* the evaluators
Init == (InitBinomial \/ InitWishart) /\ IdleMath /\ IdleFrame

Next ==
  \/ b_check_n \/ b_check_N \/ b_check_finite \/ b_check_theta
  \/ b_coefficient \/ b_theta
  \/ w_check_nu \/ w_check_W \/ w_check_S \/ w_check_WS
  \/ w_dof \/ w_lmgamma \/ w_detS \/ w_trace \/ w_detW

Spec == Init /\ [][Next]_vars

\* the special functions
MathInit ==
  /\ \/ (InitSoftmax \/ InitInverseSoftmax \/ InitLogSumExp) /\ IdleFrame
     \/ InitLmgamma /\ IdleMath
  /\ IdleEvaluators

MathNext ==
  \/ s_check \/ max_enter \/ max_loop \/ s_pass1 \/ s_pass2
  \/ is_check \/ is_loop
  \/ lse_max \/ lse_sum \/ lse_return
  \/ lm_enter \/ lm_loop

SpecMath == MathInit /\ [][MathNext]_vars

\* the scalar functions
FunInit == InitScalar /\ IdleEvaluators /\ IdleMath

FunNext ==
  \/ call_log_sum_exp \/ call_log1p \/ call_log1m
  \/ call_binomial_coefficient_log \/ call_multiply_log

SpecFun == FunInit /\ [][FunNext]_vars

(* ------------------------------ claims -------------------------------- *)
\* the call has returned after passing every check
Passed ==
  /\ pc = "done" /\ ret /= Exception
  /\ \A j \in 1..Len(checks) : checks[j].ok

\* the call has returned because a check failed
Failed == pc = "done" /\ \E j \in 1..Len(checks) : ~checks[j].ok

(* C1, as stated: on every valid input the propto=false result minus the
   propto=true result of binomial_log equals binomial_coefficient_log(N, n),
   for a plain and for a differentiable theta.  It is stated where the
   difference of the two results is a difference of finite numbers, so that
   no infinite or NaN result is what refutes it. *)
C1_AsStated ==
  (/\ fn = "binomial_log" /\ Passed /\ ~propto
   /\ IsFinite(ret)
   /\ IsFinite(binomial_value(TRUE, T_prob, n, N, theta))) =>
    Sub(ret, binomial_value(TRUE, T_prob, n, N, theta))
      = binomial_coefficient_log(N, n)

(* C1, amended: with a differentiable theta the propto=false result is
   binomial_coefficient_log(N, n) plus the propto=true result, so the two
   differ by exactly that coefficient whenever the propto=true result is
   finite; with a plain theta the propto=true result is 0 and the
   propto=false result is the coefficient plus the theta-dependent part. *)
C1_Difference ==
  (fn = "binomial_log" /\ Passed /\ ~propto) =>
    LET other == binomial_value(TRUE, T_prob, n, N, theta)
        coef == binomial_coefficient_log(N, n)
    IN  /\ T_prob = "var" =>
             /\ ret = Add(coef, other)
             /\ IsFinite(other) => Sub(ret, other) = coef
        /\ T_prob = "double" =>
             /\ other = Zero
             /\ ret = Add(coef, binomial_term("theta", n, N, theta))

\* a differentiable theta, a non-zero coefficient and a finite, non-zero
\* theta-dependent part
C1_Witness ==
  /\ fn = "binomial_log" /\ Passed /\ ~propto /\ T_prob = "var"
  /\ binomial_coefficient_log(N, n) /= Zero
  /\ IsFinite(ret) /\ ret /= binomial_coefficient_log(N, n)

\* the ids of the terms the call accumulated
AddedIds == {added[j].id : j \in 1..Len(added)}

BinomialTerms == <<"coefficient", "theta">>

\* the terms a propto=false call on the same input accumulates and this
\* call did not
Skipped ==
  IF fn = "binomial_log"
    THEN {BinomialTerms[j] : j \in 1..Len(BinomialTerms)} \ AddedIds
  ELSE {WishartTerms[j] : j \in
          {t \in 1..Len(WishartTerms) :
             wishart_adds(t, FALSE, T_y, T_dof, T_scale, W, nu)}} \ AddedIds

RECURSIVE SumSkipped(_, _, _)
\* the sum of the terms of the sequence ids that are in the set sk
SumSkipped(ids, sk, j) ==
  IF j > Len(ids) THEN Zero
  ELSE Add(IF ids[j] \in sk
             THEN (IF fn = "binomial_log"
                     THEN binomial_term(ids[j], n, N, theta)
                     ELSE wishart_term(ids[j], W, nu, S))
             ELSE Zero,
           SumSkipped(ids, sk, j + 1))

\* the values the argument a of type T may be changed to: any of its
\* domain D when it is differentiable, none but its own when it is plain
Vary(T, a, D) == IF T = "var" THEN D ELSE {a}

SameShape(A, B) == A.rows = B.rows /\ A.cols = B.cols

(* C2: for binomial_log and wishart_log, every term accumulated with
   propto=false but skipped with propto=true has the same value whatever
   values the differentiable arguments take, and the propto=false result
   is the propto=true result plus the sum of those terms. *)
C2_SkippedTermsConstant ==
  (Passed /\ propto) =>
    IF fn = "binomial_log"
      THEN /\ \A id \in Skipped :
                \A t2 \in Vary(T_prob, theta, ThetaVals) :
                   binomial_term(id, n, N, t2) = binomial_term(id, n, N, theta)
           /\ binomial_value(FALSE, T_prob, n, N, theta)
                = Add(ret, SumSkipped(BinomialTerms, Skipped, 1))
    ELSE /\ \A id \in Skipped :
              \A W2 \in Vary(T_y, W, {M \in Matrices : SameShape(M, W)}),
                 nu2 \in Vary(T_dof, nu, NuVals),
                 S2 \in Vary(T_scale, S, {M \in Matrices : SameShape(M, S)}) :
                 wishart_term(id, W2, nu2, S2) = wishart_term(id, W, nu, S)
         /\ wishart_value(FALSE, T_y, T_dof, T_scale, W, nu, S)
              = Add(ret, SumSkipped(WishartTerms, Skipped, 1))

\* a propto=true wishart_log call with a differentiable W that skipped
\* some terms and accumulated others
C2_Witness ==
  /\ fn = "wishart_log" /\ Passed /\ propto
  /\ T_y = "var" /\ T_dof = "double" /\ T_scale = "double"
  /\ Skipped = {"dof", "lmgamma", "detS"}
  /\ AddedIds = {"trace", "detW"}

\* the position of an argument in the evaluator's signature; the check of
\* W against S counts as a check of S, the later of the two
Declared(arg) ==
  IF fn = "binomial_log"
    THEN (IF arg = "n" THEN 1 ELSE IF arg = "N" THEN 2 ELSE 3)
  ELSE (IF arg = "W" THEN 1 ELSE IF arg = "nu" THEN 2 ELSE 3)

\* whether some check about the argument fails on the call's input
Invalid(arg) ==
  IF fn = "binomial_log"
    THEN \E j \in 1..Len(BinomialChecks) :
           BinomialChecks[j] = arg /\ ~binomial_check(j, n, N, theta)
  ELSE \E j \in 1..Len(WishartChecks) :
         /\ Declared(WishartChecks[j]) = Declared(arg)
         /\ ~wishart_check(j, W, nu, S)

\* the argument of the check that failed
Reported == checks[Len(checks)].arg

(* C3, as stated: the checks run in the order in which the arguments are
   declared (n, N, theta; W, nu, S), and the failure reported is that of
   the earliest-declared invalid argument. *)
C3_AsStated ==
  /\ \A a, b \in 1..Len(checks) :
       a < b => Declared(checks[a].arg) <= Declared(checks[b].arg)
  /\ Failed =>
       \A arg \in {"n", "N", "theta", "W", "nu", "S"} :
          Declared(arg) < Declared(Reported) => ~Invalid(arg)

(* C3, amended: binomial_log checks n, then N, then theta (finite, then
   bounded); wishart_log checks nu, then W (square), then S (square), then
   W against S; the failure reported is that of the first check, in this
   order, that fails on the input. *)
C3_CodeOrder ==
  LET order == IF fn = "binomial_log" THEN BinomialChecks ELSE WishartChecks
      holds(j) == IF fn = "binomial_log"
                    THEN binomial_check(j, n, N, theta)
                    ELSE wishart_check(j, W, nu, S)
  IN  /\ Len(checks) <= Len(order)
      /\ \A j \in 1..Len(checks) :
           checks[j].arg = order[j] /\ checks[j].ok = holds(j)
      /\ Failed =>
           /\ ~holds(Len(checks))
           /\ \A j \in 1..(Len(checks) - 1) : holds(j)

\* W is not square and nu is below k-1: the failure reported is nu's
C3_Witness ==
  /\ fn = "wishart_log" /\ Failed
  /\ W.rows /= W.cols /\ nu < W.rows - 1 /\ W.rows > 0
  /\ Reported = "nu"

(* C4: a check that returns false is the last statement of the call: the
   accumulator is returned as the check left it, no later check runs, no
   term is added and none of lmgamma, determinant, inverse, multiply and
   trace is called; terms and calls come only after all four checks have
   returned true. *)
C4_ShortCircuit ==
  /\ \A j \in 1..(Len(checks) - 1) : checks[j].ok
  /\ (Len(checks) > 0 /\ ~checks[Len(checks)].ok) =>
       /\ pc = "done"
       /\ lp = check_writes(FALSE, lp) /\ ret = lp
       /\ added = <<>> /\ calls = <<>>
  /\ (added /= <<>> \/ calls /= <<>>) =>
       /\ Len(checks) = Len(WishartChecks)
       /\ \A j \in 1..Len(checks) : checks[j].ok

\* wishart_log returned from its third check, of a non-square S
C4_Witness ==
  /\ fn = "wishart_log" /\ Failed
  /\ Len(checks) = 3 /\ S.rows /= S.cols

(* C5: wishart_log ends with a failed check and nothing accumulated when
   nu < k-1, when W is not square and when W and S differ in dimensions;
   for nu = k+1 and S = W = identity(k), k >= 1, it passes every check and
   returns a finite value. *)
C5_DomainErrors ==
  (fn = "wishart_log" /\ pc = "done") =>
    /\ (nu < W.rows - 1 \/ W.rows /= W.cols \/ ~SameShape(W, S)) =>
         Failed /\ added = <<>> /\ ret = Sentinel
    /\ (W.rows >= 1 /\ nu = W.rows + 1 /\ W = identity(W.rows) /\ S = W) =>
         Passed /\ IsFinite(ret)

\* the 2 x 2 identity case, every term accumulated
C5_Witness ==
  /\ fn = "wishart_log" /\ Passed /\ ~propto
  /\ W = identity(2) /\ S = identity(2) /\ nu = 3
  /\ IsFinite(ret) /\ ret /= Zero

\* whether the claim has wishart_log accumulate the term id
C6_Expected(id) ==
  IF id \in {"dof", "lmgamma"} THEN ~propto \/ T_dof = "var"
  ELSE IF id = "detS" THEN ~propto \/ T_dof = "var" \/ T_scale = "var"
  ELSE IF id = "trace" THEN ~propto \/ T_scale = "var" \/ T_y = "var"
  ELSE (~propto \/ T_y = "var" \/ T_dof = "var") /\ nu /= W.rows + 1

RECURSIVE SumAdded(_)
\* the terms accumulated, summed from 0 in the order they were added
SumAdded(j) == IF j = 0 THEN Zero ELSE Add(SumAdded(j - 1), added[j].v)

(* C6: after validation wishart_log accumulates, from 0 and each once,
   exactly the terms of the claim's table, and never the det(W) term,
   nor a call of determinant(W), when nu = k+1. *)
C6_TermSet ==
  (fn = "wishart_log" /\ Passed) =>
    /\ AddedIds = {id \in {WishartTerms[j] : j \in 1..Len(WishartTerms)} :
                     C6_Expected(id)}
    /\ Len(added) = Cardinality(AddedIds)
    /\ ret = SumAdded(Len(added))
    /\ nu = W.rows + 1 =>
         \A j \in 1..Len(calls) : calls[j] /= "determinant(W)"

\* propto with only nu differentiable, at nu = k+1
C6_Witness ==
  /\ fn = "wishart_log" /\ Passed /\ propto
  /\ T_dof = "var" /\ T_y = "double" /\ T_scale = "double"
  /\ nu = W.rows + 1
  /\ AddedIds = {"dof", "lmgamma", "detS"}

\* the claim's expression for the term id
C7_Expression(id) ==
  IF id = "dof" THEN Scale(RInt(nu * W.rows), Scale(<<-1, 2>>, log(NumInt(2))))
  ELSE IF id = "lmgamma" THEN Neg(lmgamma(W.rows, NumRat(Rat(nu, 2))))
  ELSE IF id = "detS"
    THEN Neg(Scale(Rat(nu, 2), log(fabs(determinant(S)))))
  ELSE IF id = "trace"
    THEN Neg(Scale(<<1, 2>>, trace(multiply(inverse(S), W))))
  ELSE Scale(Rat(nu - W.rows - 1, 2), log(fabs(determinant(W))))

(* C7, as stated: every term wishart_log includes has the value of the
   claim's expression, the trace term being -1/2 * trace(S^-1 W) whatever
   the sign of the trace, and the result is their sum.  It is stated for
   W and S of positive determinant, where log(det) and log|det| are the
   same number, and for calls that return a finite value. *)
C7_AsStated ==
  (/\ fn = "wishart_log" /\ Passed /\ IsFinite(ret)
   /\ Lt(Zero, determinant(S)) /\ Lt(Zero, determinant(W))) =>
    /\ \A j \in 1..Len(added) : added[j].v = C7_Expression(added[j].id)
    /\ ret = SumAdded(Len(added))

(* C8: an evaluator called with propto=true and only plain arguments
   returns exactly 0 on every input that passes its validation, having
   accumulated no term. *)
C8_PlainProptoZero ==
  (/\ Passed /\ propto
   /\ fn = "binomial_log" => T_prob = "double"
   /\ fn = "wishart_log" =>
        T_y = "double" /\ T_dof = "double" /\ T_scale = "double") =>
    ret = Zero /\ added = <<>>

\* such a call of wishart_log on 2 x 2 matrices
C8_Witness ==
  /\ fn = "wishart_log" /\ Passed /\ propto
  /\ T_y = "double" /\ T_dof = "double" /\ T_scale = "double"
  /\ W.rows = 2 /\ ret = Zero

\* softmax has its max_x, or inverse_softmax is past its size check
PastMaximum ==
  /\ fn = "softmax"
  /\ mpc \in {"s_pass1", "s_pass2", "done"}
  /\ mret /= "invalid_argument"

(* C9, as stated: the max_x that softmax gets from maximum is >= every
   x[i] and equals some x[j], so every argument x[i]-max_x passed to exp
   is <= 0 and, once the first pass is over, at least one is 0. *)
C9_AsStated ==
  PastMaximum =>
    /\ \A j \in DOMAIN x : max_x >= x[j]
    /\ \E j \in DOMAIN x : max_x = x[j]
    /\ \A j \in 1..Len(expargs) : expargs[j] <= 0
    /\ mpc /= "s_pass1" => \E j \in 1..Len(expargs) : expargs[j] = 0

\* the vector the call writes and the vector it reads
Output == IF fn = "softmax" THEN simplex ELSE y
Input == IF fn = "softmax" THEN x ELSE simplex
Passes == IF fn = "softmax" THEN 2 ELSE 1

\* the number of writes of element j made in pass p
Writes(p, j) == Cardinality({w \in 1..Len(wlog) : wlog[w] = <<p, j>>})

\* what C10 says of a single state
C10_State ==
  /\ size(Input) /= size(Output) =>
       /\ wlog = <<>>
       /\ \A j \in DOMAIN Output : Output[j] \in {Old, Special("old")}
       /\ mpc = "done" => mret = "invalid_argument"
  /\ \A w \in 1..Len(wlog) : Writes(wlog[w][1], wlog[w][2]) = 1
  /\ (size(Input) = size(Output) /\ size(Input) > 0 /\ mpc = "done") =>
       /\ mret = "returned"
       /\ \A p \in 1..Passes : \A j \in DOMAIN Output : Writes(p, j) = 1
       /\ Len(wlog) = Passes * size(Output)

(* C10: softmax and inverse_softmax called with input and output of
   different sizes end in invalid_argument with no element of the output
   written; called with equal non-zero sizes they write every output
   element exactly once per pass; and no step changes the input vector. *)
C10_SizesAndWrites == [](C10_State) /\ [][Input' = Input]_vars

\* softmax has returned from a call on vectors of the largest size
C10_Witness ==
  /\ fn = "softmax" /\ mpc = "done" /\ mret = "returned"
  /\ size(x) = MaxLen /\ Len(wlog) = 2 * MaxLen

\* the entries of a vector as a sequence
Vec2Seq(v) == [j \in 1..size(v) |-> v[j - 1]]

RECURSIVE Kept(_, _)
\* the entries of the vector v from index j on that are not -infinity
Kept(v, j) ==
  IF j >= size(v) THEN <<>>
  ELSE IF v[j] = NegInf THEN Kept(v, j + 1)
  ELSE <<v[j]>> \o Kept(v, j + 1)

RECURSIVE MaxOf(_, _, _)
\* the largest of m and the entries of the sequence sq from position j on
MaxOf(sq, j, m) ==
  IF j > Len(sq) THEN m
  ELSE MaxOf(sq, j + 1, IF Lt(m, sq[j]) THEN sq[j] ELSE m)

RECURSIVE SumOf(_, _, _, _)
\* 0.0 plus exp(sq[j] - m), ... in order
SumOf(sq, j, m, acc) ==
  IF j > Len(sq) THEN acc
  ELSE SumOf(sq, j + 1, m, SumAdd(acc, exp(Sub(sq[j], m))))

\* max + log(sum of exp(v - max)) over every entry of the sequence sq
LogSumExpOf(sq) ==
  LET m == MaxOf(sq, 1, NegInf)
  IN  Plus(m, LogOfSum(SumOf(sq, 1, m, SumZero)))

\* log_sum_exp has returned from a call on finite and -infinite entries
LseReturned ==
  /\ fn = "log_sum_exp" /\ mpc = "done"
  /\ \A j \in DOMAIN x : x[j] = NegInf \/ IsFinite(x[j])

(* C11: on a vector of finite and negative-infinite entries the n-ary
   log_sum_exp takes the largest entry as max, hands exp only differences
   of a finite entry and max (never (-inf) - (-inf)), does not return
   NaN, returns what it returns on the vector without its -infinite
   entries, and returns -infinity when no finite entry is left. *)
C11_SkipsNegInf ==
  LseReturned =>
    /\ max_x = MaxOf(Vec2Seq(x), 1, NegInf)
    /\ \A j \in 1..Len(expargs) : IsFinite(expargs[j])
    /\ Len(expargs) = Len(Kept(x, 0))
    /\ mret /= NaN
    /\ mret = LogSumExpOf(Kept(x, 0))
    /\ Kept(x, 0) = <<>> => mret = NegInf

\* a call on a vector that mixes -infinity with two different finite entries
C11_Witness ==
  /\ LseReturned
  /\ \E j \in DOMAIN x : x[j] = NegInf
  /\ \E a, b \in DOMAIN x : IsFinite(x[a]) /\ IsFinite(x[b]) /\ x[a] /= x[b]
  /\ mret.k \in Symbolic

\* the scalar function o has returned or thrown
Called(o) == frame.op = o /\ frame.at = "done"

(* C12, as stated: negative infinity is the identity of the pairwise
   log_sum_exp: for every a that is not NaN, log_sum_exp(a, -inf) = a and
   log_sum_exp(-inf, a) = a. *)
C12_AsStated ==
  Called("log_sum_exp") =>
    /\ (frame.b = NegInf /\ frame.a /= NaN) => frame.ret = frame.a
    /\ (frame.a = NegInf /\ frame.b /= NaN) => frame.ret = frame.b

(* C13: log_sum_exp(a, b) returns what log_sum_exp(b, a) returns; when
   neither argument is NaN its offset is an argument that is >= both and
   the argument of exp is the other one minus the offset, which is never
   positive. *)
C13_Commutative ==
  Called("log_sum_exp") =>
    /\ frame.ret = log_sum_exp(frame.b, frame.a)
    /\ (frame.a /= NaN /\ frame.b /= NaN) =>
         /\ Le(frame.a, frame.offset) /\ Le(frame.b, frame.offset)
         /\ \/ frame.offset = frame.a
               /\ frame.exparg = Sub(frame.b, frame.a)
            \/ frame.offset = frame.b
               /\ frame.exparg = Sub(frame.a, frame.b)
         /\ ~Lt(Zero, frame.exparg)

\* two different finite arguments, the larger one second
C13_Witness ==
  /\ Called("log_sum_exp")
  /\ IsFinite(frame.a) /\ IsFinite(frame.b) /\ Lt(frame.a, frame.b)
  /\ frame.offset = frame.b /\ frame.ret.k \in Symbolic

(* C14: log1p(x) throws exactly when x < -1 and log1m(x) exactly when
   x > 1; at x = -1 and at x = 1 they do not throw and take the branch
   that calls log directly. *)
C14_DomainErrors ==
  /\ Called("log1p") =>
       /\ frame.thrown <=> Lt(frame.x, NumInt(-1))
       /\ frame.x = NumInt(-1) =>
            frame.regime = "direct" /\ frame.ret = log(Zero)
  /\ Called("log1m") =>
       /\ frame.thrown <=> Lt(NumInt(1), frame.x)
       /\ frame.x = NumInt(1) =>
            frame.regime = "direct" /\ frame.ret = log(Zero)

\* log1m at its boundary
C14_Witness ==
  /\ Called("log1m") /\ frame.x = NumInt(1)
  /\ ~frame.thrown /\ frame.ret = NegInf

(* C15, as stated: binomial_coefficient_log(N, n) takes the asymptotic
   branch exactly when N exceeds 1000 or N-n exceeds 1000. *)
C15_AsStated ==
  Called("binomial_coefficient_log") =>
    (frame.branch = "asymptotic"
       <=> (frame.N > cutoff \/ frame.N - frame.n > cutoff))

(* C15, amended: binomial_coefficient_log(N, n) takes the asymptotic
   branch exactly when both N and N-n are at least 1000, and otherwise
   returns lgamma(N+1) - lgamma(n+1) - lgamma(N-n+1). *)
C15_Cutoff ==
  Called("binomial_coefficient_log") =>
    /\ frame.branch = "asymptotic"
         <=> (frame.N >= cutoff /\ frame.N - frame.n >= cutoff)
    /\ frame.branch /= "asymptotic" =>
         frame.ret = Sub(Sub(lgamma(NumInt(frame.N + 1)),
                             lgamma(NumInt(frame.n + 1))),
                         lgamma(NumInt(frame.N - frame.n + 1)))

\* N above the cutoff and N-n below it: the lgamma branch
C15_Witness ==
  /\ Called("binomial_coefficient_log")
  /\ frame.N > cutoff /\ frame.N - frame.n < cutoff
  /\ frame.branch = "lgamma" /\ IsFinite(frame.ret)

(* C16: multiply_log(a, b) returns 0 without calling log when a = 0 and
   b = 0, and a * log(b) for every other pair. *)
C16_ZeroCase ==
  Called("multiply_log") =>
    IF frame.a = Zero /\ frame.b = Zero
      THEN frame.ret = Zero /\ frame.calls = <<>>
    ELSE frame.ret = Scale(frame.a.q, log(frame.b))
         /\ frame.calls = <<"log">>

\* the call multiply_log(0, 0)
C16_Witness ==
  /\ Called("multiply_log")
  /\ frame.a = Zero /\ frame.b = Zero /\ frame.ret = Zero

\* the value of the term id among the terms accumulated, 0 when absent
TermValue(id) ==
  IF \E j \in 1..Len(added) : added[j].id = id
    THEN added[CHOOSE j \in 1..Len(added) : added[j].id = id].v
  ELSE Zero

(* C17, as stated: on every input that passes its validation binomial_log
   with propto=false never multiplies 0 by an infinite log1m(theta) and
   never returns NaN; at theta = 0 with n = 0 and at theta = 1 with n = N
   the theta-dependent part is 0. *)
C17_AsStated ==
  (fn = "binomial_log" /\ Passed /\ ~propto) =>
    /\ ~(N - n = 0 /\ log1m(theta) = NegInf)
    /\ ret /= NaN
    /\ ((theta = Zero /\ n = 0) \/ (theta = NumInt(1) /\ n = N)) =>
         TermValue("theta") = Zero

\* the elements of the set D of integers in increasing order
SortedSeq(D) ==
  [t \in 1..Cardinality(D) |->
     CHOOSE v \in D : Cardinality({w \in D : w < v}) = t - 1]

IsSymmetric(M) ==
  /\ M.rows = M.cols
  /\ \A a, b \in 1..M.rows : M.e[<<a, b>>] = M.e[<<b, a>>]

\* symmetric with every principal minor >= 0
IsPositiveSemiDefinite(M) ==
  /\ IsSymmetric(M)
  /\ \A D \in SUBSET (1..M.rows) :
       Minor(M.e, SortedSeq(D), SortedSeq(D)) >= 0

(* C18, as stated: wishart_log ends in a failed check, with no term
   computed, whenever S is not square, not symmetric or not positive
   semi-definite. *)
C18_AsStated ==
  (/\ fn = "wishart_log" /\ pc = "done"
   /\ \/ S.rows /= S.cols
      \/ ~IsSymmetric(S)
      \/ ~IsPositiveSemiDefinite(S)) =>
    Failed /\ added = <<>> /\ calls = <<>>

(* C19, as stated: wishart_log ends in a failed check whenever nu is not
   greater than k-1, nu = k-1 included. *)
C19_AsStated ==
  (fn = "wishart_log" /\ pc = "done" /\ nu <= W.rows - 1) =>
    Failed /\ added = <<>>

\* a vector function has returned
Returned(f) ==
  fn = f /\ mpc = "done" /\ (f = "log_sum_exp" \/ mret = "returned")

(* C20, as stated: lmgamma(k, x) never runs its loop body more than k
   times, and has run it exactly k times when it returns, for every
   unsigned k; softmax (with maximum), inverse_softmax and the n-ary
   log_sum_exp have run a number of loop bodies fixed by the length of
   their vector when they return. *)
C20_AsStated ==
  /\ (fn = "lmgamma" /\ frame.at /= "enter") =>
       /\ U32Le(frame.iters, frame.k)
       /\ frame.at = "done" => frame.iters = frame.k
  /\ Returned("softmax") => iters = 3 * size(x) - 1
  /\ Returned("inverse_softmax") => iters = size(simplex)
  /\ Returned("log_sum_exp") => iters = 2 * size(x)

\* |v| > 10^-e for e = 9 or e = 16, v rational, tiny or +infinity
AbsAbove(v, e) ==
  IF v.k = "pinf" THEN TRUE
  ELSE IF v.k = "tiny"
    THEN (IF v.e >= e THEN Abs(v.m) > 10^(v.e - e) ELSE TRUE)
  ELSE IF e = 9 THEN Abs(v.q[1]) > v.q[2] \div 10^9
  ELSE v.q[1] /= 0

\* the value of the formula of a regime at v
RegimeValue(r, v) ==
  IF r = "taylor1" THEN v
  ELSE IF v.k = "tiny"
    THEN [k |-> IF r = "direct" THEN "log1ptiny" ELSE "taylor2tiny",
          of |-> v]
  ELSE IF r = "direct" THEN log(Add(NumInt(1), v))
  ELSE Sub(v, Scale(<<1, 2>>, RatMul(v, v)))

(* C21: for every x >= -1 log1p returns log(1+x) when |x| > 1e-9,
   x - x*x/2 when 1e-16 < |x| <= 1e-9 and x when |x| <= 1e-16, one
   regime for each x; log1p(0) = 0. *)
C21_Regimes ==
  (Called("log1p") /\ ~frame.thrown /\ frame.x /= NaN) =>
    /\ frame.regime =
         IF AbsAbove(frame.x, 9) THEN "direct"
         ELSE IF AbsAbove(frame.x, 16) THEN "taylor2"
         ELSE "taylor1"
    /\ frame.ret = RegimeValue(frame.regime, frame.x)
    /\ frame.x = Zero => frame.ret = Zero

\* log1p at 1e-9, the largest x of the second-order regime
C21_Witness ==
  /\ Called("log1p") /\ frame.x = Tiny(1, 9)
  /\ frame.regime = "taylor2"

(* C22: binomial_log reaches its check of N only after its check of
   0 <= n <= N has passed, so the check of N never fails, and a call with
   a negative N ends with the failure of the check of n. *)
C22_NCheckNeverFails ==
  fn = "binomial_log" =>
    /\ \A c \in 1..Len(checks) :
         checks[c].arg = "N" =>
           /\ checks[c].ok
           /\ c > 1 /\ checks[1].arg = "n" /\ checks[1].ok
           /\ N >= 0
    /\ (N < 0 /\ pc = "done") =>
         Failed /\ Reported = "n" /\ Len(checks) = 1

\* a call with n = 0 and a negative N has failed at the check of n
C22_Witness ==
  /\ fn = "binomial_log" /\ N < 0 /\ n = 0
  /\ Failed /\ Reported = "n"

(* C23, as stated: in wishart_log nu is compared against the mathematical
   value rows(W) - 1 whatever the row count, so that with a 0 x 0 matrix W
   the bound is -1 and every nu >= -1 passes the degrees-of-freedom check;
   and the det(W) term is guarded by nu differing from k + 1. *)
C23_AsStated ==
  (fn = "wishart_log" /\ Len(checks) >= 1) =>
    /\ checks[1].arg = "nu"
    /\ checks[1].ok = (nu >= W.rows - 1)
    /\ (W.rows = 0 /\ nu >= -1) => checks[1].ok
    /\ (Passed /\ include_detW(propto, T_y, T_dof, T_scale)) =>
         (("detW" \in AddedIds) = (nu /= W.rows + 1))

====
